---- MODULE Spec2Model ----
(***************************************************************************)
(* panda-monitor: the collector's aggregation window and flush task        *)
(* (backend/src/rpc_service.rs), the external command gateway              *)
(* (backend/src/ws_handler.rs) and the agent's command handler and         *)
(* state-reporting loop (agent/src/monitor.rs).                            *)
(***************************************************************************)
EXTENDS Integers, Sequences, FiniteSets, TLC

(***************************************************************************)
(* Bounds of the model.                                                    *)
(***************************************************************************)
\* agent identities 1..NumAgents take part
NumAgents == 3
\* ReportState calls the collector serves in one run
MaxReports == 3

\* frames the operator sends on one external control connection
MaxFrames == 3
\* commands other tasks send on the CommandBus while a gateway connection is served
MaxTraffic == 3
\* commands that reach one agent's command stream
MaxCommands == 3
\* iterations of the state-reporting loop followed in one run
MaxTicks == 3

\* rpc_service.rs:35 (50 in the source, scaled to the model's fleet)
MAX_SERVER_COUNT == 2
\* main.rs:18 broadcast::channel(128), scaled to the model's traffic
BUS_CAPACITY == 2

\* monitor.rs:18
RETRY_ATTEMPTS == 3

\* monitor.rs:159 Duration::from_secs(1), in half seconds
TICK_PERIOD == 2
\* the longest a report attempt takes, in half seconds
MaxDuration == 3
\* report attempts followed on the loop's clock
MaxAttempts == 3

\* items a client puts on the request side of one SendCommand stream
MaxRequests == 2
\* rpc_service.rs:180 mpsc::channel(128), scaled to the model's traffic
STREAM_CAPACITY == 2
\* rpc_service.rs:34 (30 in the source), in ticks of the model's clock
COMMAND_TIMEOUT_SECONDS == 2

AgentIds == 1..NumAgents

\* Option::None of a request's agent_info (identities are 1..NumAgents)
NoAgent == 0

VARIABLES
    \* ---- collector: SharedState, Notify, Mutex (rpc_service.rs) ----
    states,         \* SharedState.states : Vec<State>
    server_ids,     \* SharedState.server_ids : HashSet<u64>
    lock,           \* holder of shared_states' Mutex
    notify,         \* Notify: TRUE when a permit is stored
    flushPc,        \* position of the state-check task
    serialized_data,\* the task's local serialized_data
    published,      \* every command handed to command_tx.send, with its sender
    ingestPc,       \* position of each report_server_state call
    ingestReq,      \* the StateRequest each call is handling
    reports,        \* ReportState calls started so far
    ingested,       \* identities whose accepted report has been ingested
    \* ---- CommandBus (main.rs:18) and the gateway (ws_handler.rs) ----
    wsRx,           \* the gateway's broadcast receiver rx (ws_handler.rs:113)
    wsPc,           \* position of handle_socket
    wsSent,         \* every frame the operator has sent, in order
    wsRead,         \* how many of them socket.recv() has returned
    wsPending,      \* res.data the relay loop is about to send
    wsOut,          \* frames the gateway has sent to the operator
    traffic,        \* commands other tasks have sent on the bus
    \* ---- agent (monitor.rs) ----
    agentPc,        \* position of each agent
    report_state,   \* ServerMonitorAgent.report_state
    stream,         \* commands waiting on the agent's SendCommand stream
    streamEnded,    \* the collector has closed the agent's stream
    delivered,      \* commands put on the agent's stream so far
    lastCmd,        \* the command parse_command handled last
    rpcs,           \* ReportState / ReportHost / UpdateIp calls the agent has issued
    ticks,          \* iterations of the reporting loop started
    ticksSinceStop, \* those started since an addressed stop_report_state was sent
                    \* to the agent while it was reporting (-1: none was sent)
    cmdAttempts,    \* send_command's local attempts (monitor.rs:74)
    reportAttempts, \* report_server_state's local attempts (monitor.rs:187)
    opened,         \* SendCommand streams the agent has established
    streamErr,      \* the agent's stream ends with Err(Status)
    rpcFailed,      \* ReportState calls of the agent that returned an error
    retry,          \* the three retry wrappers, each run on its own
    timing,         \* the reporting loop's clock, interval and attempts
    \* ---- StreamBridge: the task send_command spawns (rpc_service.rs:173-211) ----
    bridgeRx,       \* each bridge's broadcast receiver command_rx
    bridgePc,       \* position of each bridge
    bridgeOff,      \* the recv branch is disabled in the select! being awaited
    bridgeHeld,     \* the command a bridge is handing to tx.send
    inbound,        \* items waiting on the request side of the stream
    requests,       \* items the client has put there so far
    inboundEnded,   \* the client has ended the request side
    bridgeAge,      \* ticks of the clock since the bridge's start
    forwarded,      \* broadcast commands each bridge has put on its agent's stream
    subscribedAt    \* how many commands had been published when it subscribed

collectorVars == <<states, server_ids, lock, notify, flushPc, serialized_data,
                   ingestPc, ingestReq, reports, ingested>>
busVars == <<published, wsRx, bridgeRx>>
gatewayVars == <<wsPc, wsSent, wsRead, wsPending, wsOut, traffic>>
agentRetryVars == <<cmdAttempts, reportAttempts, opened, streamErr, rpcFailed>>
agentVars == <<agentPc, report_state, stream, streamEnded, delivered, lastCmd,
               rpcs, ticks, ticksSinceStop, agentRetryVars>>
retryVars == <<retry>>
timingVars == <<timing>>

bridgeVars == <<bridgePc, bridgeOff, bridgeHeld, inbound, requests, inboundEnded,
                bridgeAge, forwarded, subscribedAt>>
vars == <<collectorVars, busVars, gatewayVars, agentVars, bridgeVars, retryVars, timingVars>>

(***************************************************************************)
(* Data                                                                    *)
(***************************************************************************)
\* A State sample of agent a; seq tells successive samples apart.
Snapshot(a, n) == [src |-> a, seq |-> n]

\* serde_json::to_string(&states): a JSON array of the samples, in order.
ToJson(sts) == [tag |-> "json", body |-> sts]

\* Command { command, data, server_ids }
Command(disc, data, ids) == [command |-> disc, data |-> data, server_ids |-> ids]

\* the identities that contributed the samples of a list
Sources(sts) == {sts[i].src : i \in 1..Len(sts)}

\* Option::None of a request's state
NoState == Snapshot(NoAgent, 0)

NoRequest == [state |-> NoState, agent_info |-> NoAgent]

\* holders of the Mutex around SharedState
Unlocked == [by |-> "nobody", id |-> NoAgent]
HeldByFlush == [by |-> "flush", id |-> NoAgent]
HeldByIngest(a) == [by |-> "ingest", id |-> a]

\* command.data of the control commands
Tag(t) == [tag |-> t, body |-> <<>>]

(***************************************************************************)
(* CommandBus: tokio::sync::broadcast, one queue per receiver              *)
(***************************************************************************)
NoReceiver == [open |-> FALSE, queue |-> <<>>, lagged |-> FALSE]
NewReceiver == [open |-> TRUE, queue |-> <<>>, lagged |-> FALSE]

\* A value sent reaches every receiver subscribed at that moment; a receiver
\* holding BUS_CAPACITY values loses its oldest one and is marked lagged.
Deliver(rx, cmd) ==
    IF ~rx.open THEN rx
    ELSE IF Len(rx.queue) < BUS_CAPACITY
         THEN [rx EXCEPT !.queue = Append(@, cmd)]
         ELSE [rx EXCEPT !.queue = Append(Tail(@), cmd), !.lagged = TRUE]

\* variant: a send waits until every receiver has room
BusSendWaits(cmd, by) ==
    /\ Len(wsRx.queue) < BUS_CAPACITY
    /\ \A b \in AgentIds : Len(bridgeRx[b].queue) < BUS_CAPACITY
    /\ published' = Append(published, [cmd |-> cmd, by |-> by])
    /\ wsRx' = Deliver(wsRx, cmd)
    /\ bridgeRx' = [b \in AgentIds |-> Deliver(bridgeRx[b], cmd)]

\* command_tx.send(cmd) by the task named by
BusSend(cmd, by) ==
    /\ published' = Append(published, [cmd |-> cmd, by |-> by])
    /\ wsRx' = Deliver(wsRx, cmd)
    /\ bridgeRx' = [b \in AgentIds |-> Deliver(bridgeRx[b], cmd)]

(***************************************************************************)
(* report_server_state (ingest), one call per agent at a time              *)
(***************************************************************************)
\* the requests a client may put on the stream: state / agent_info present or not
Requests(a, n) ==
    {[state |-> s, agent_info |-> i] : s \in {NoState, Snapshot(a, n)}, i \in {NoAgent, a}}

\* variant: only the state of a request is validated
IngestRecvLax(a) ==
    /\ ingestPc[a] = "idle"
    /\ reports < MaxReports
    /\ reports' = reports + 1
    /\ \E req \in Requests(a, reports + 1) :
          /\ ingestReq' = [ingestReq EXCEPT ![a] = req]
          /\ ingestPc' = [ingestPc EXCEPT ![a] =
                IF req.state = NoState THEN "idle" ELSE "lock"]
    /\ UNCHANGED <<states, server_ids, lock, notify, flushPc, serialized_data, ingested>>
    /\ UNCHANGED <<busVars, gatewayVars, agentVars, bridgeVars, retryVars, timingVars>>

\* rpc_service.rs:133-142: the first stream item is read and validated.
\* A request lacking state or agent_info is rejected before the lock is taken.
IngestRecv(a) ==
    /\ ingestPc[a] = "idle"
    /\ reports < MaxReports
    /\ reports' = reports + 1
    /\ \E req \in Requests(a, reports + 1) :
          /\ ingestReq' = [ingestReq EXCEPT ![a] = req]
          /\ ingestPc' = [ingestPc EXCEPT ![a] =
                IF req.state = NoState \/ req.agent_info = NoAgent THEN "idle" ELSE "lock"]
    /\ UNCHANGED <<states, server_ids, lock, notify, flushPc, serialized_data, ingested>>
    /\ UNCHANGED <<busVars, gatewayVars, agentVars, bridgeVars, retryVars, timingVars>>

\* variant: the call does not wait for the Mutex
IngestMayLockAlways(a) == TRUE

\* the Mutex is free for a call to take
IngestMayLock(a) == lock = Unlocked

\* rpc_service.rs:144  shared_states.lock().await
IngestLock(a) ==
    /\ ingestPc[a] = "lock"
    /\ IngestMayLock(a)
    /\ lock' = HeldByIngest(a)
    /\ ingestPc' = [ingestPc EXCEPT ![a] = "push"]
    /\ UNCHANGED <<states, server_ids, notify, flushPc, serialized_data,
                   ingestReq, reports, ingested>>
    /\ UNCHANGED <<busVars, gatewayVars, agentVars, bridgeVars, retryVars, timingVars>>

\* Vec::push
PushState(sts, s) == Append(sts, s)

\* rpc_service.rs:145  states_lock.states.push(state)
IngestPush(a) ==
    /\ ingestPc[a] = "push"
    /\ states' = PushState(states, ingestReq[a].state)
    /\ ingestPc' = [ingestPc EXCEPT ![a] = "insert"]
    /\ UNCHANGED <<server_ids, lock, notify, flushPc, serialized_data,
                   ingestReq, reports, ingested>>
    /\ UNCHANGED <<busVars, gatewayVars, agentVars, bridgeVars, retryVars, timingVars>>

\* variant: the identity replaces the set instead of joining it
InsertIdReplacing(ids, i) == {i}

\* HashSet::insert
InsertId(ids, i) == ids \cup {i}

\* variant: the call registers the identity and raises no signal
IngestInsertSilent(a) ==
    /\ ingestPc[a] = "insert"
    /\ server_ids' = InsertId(server_ids, ingestReq[a].agent_info)
    /\ lock' = IF lock = HeldByIngest(a) THEN Unlocked ELSE lock
    /\ ingestPc' = [ingestPc EXCEPT ![a] = "idle"]
    /\ ingested' = ingested \cup {ingestReq[a].agent_info}
    /\ UNCHANGED <<states, notify, flushPc, serialized_data, ingestReq, reports>>
    /\ UNCHANGED <<busVars, gatewayVars, agentVars, bridgeVars, retryVars, timingVars>>

\* rpc_service.rs:146-148  server_ids.insert(..); notify.notify_one(); the guard drops
IngestInsert(a) ==
    /\ ingestPc[a] = "insert"
    /\ server_ids' = InsertId(server_ids, ingestReq[a].agent_info)
    /\ notify' = TRUE
    /\ lock' = IF lock = HeldByIngest(a) THEN Unlocked ELSE lock
    /\ ingestPc' = [ingestPc EXCEPT ![a] = "idle"]
    /\ ingested' = ingested \cup {ingestReq[a].agent_info}
    /\ UNCHANGED <<states, flushPc, serialized_data, ingestReq, reports>>
    /\ UNCHANGED <<busVars, gatewayVars, agentVars, bridgeVars, retryVars, timingVars>>

(***************************************************************************)
(* start_state_check_task (the flush task)                                 *)
(***************************************************************************)
\* rpc_service.rs:70  notify.notified().await consumes the stored permit
FlushWake ==
    /\ flushPc = "wait"
    /\ notify
    /\ notify' = FALSE
    /\ flushPc' = "lock"
    /\ UNCHANGED <<states, server_ids, lock, serialized_data,
                   ingestPc, ingestReq, reports, ingested>>
    /\ UNCHANGED <<busVars, gatewayVars, agentVars, bridgeVars, retryVars, timingVars>>

\* rpc_service.rs:71  states.lock().await
FlushLock ==
    /\ flushPc = "lock"
    /\ lock = Unlocked
    /\ lock' = HeldByFlush
    /\ flushPc' = "check"
    /\ UNCHANGED <<states, server_ids, notify, serialized_data,
                   ingestPc, ingestReq, reports, ingested>>
    /\ UNCHANGED <<busVars, gatewayVars, agentVars, bridgeVars, retryVars, timingVars>>

\* variant: the wake-up is skipped only above the ceiling
SkipWakeUpAbove(ids) == Cardinality(ids) > MAX_SERVER_COUNT

\* rpc_service.rs:74  the wake-up is skipped
SkipWakeUp(ids) == Cardinality(ids) = MAX_SERVER_COUNT

\* rpc_service.rs:74-76  on a skip the guard drops and the task waits again
FlushCheck ==
    /\ flushPc = "check"
    /\ IF SkipWakeUp(server_ids)
          THEN /\ flushPc' = "wait"
               /\ lock' = Unlocked
          ELSE /\ flushPc' = "serialize"
               /\ lock' = lock
    /\ UNCHANGED <<states, server_ids, notify, serialized_data,
                   ingestPc, ingestReq, reports, ingested>>
    /\ UNCHANGED <<busVars, gatewayVars, agentVars, bridgeVars, retryVars, timingVars>>

\* rpc_service.rs:79-85
FlushSerialize ==
    /\ flushPc = "serialize"
    /\ serialized_data' = ToJson(states)
    /\ flushPc' = "send"
    /\ UNCHANGED <<states, server_ids, lock, notify,
                   ingestPc, ingestReq, reports, ingested>>
    /\ UNCHANGED <<busVars, gatewayVars, agentVars, bridgeVars, retryVars, timingVars>>

\* rpc_service.rs:84  String::new()
EmptyString == [tag |-> "", body |-> <<>>]

\* variant: a serialization failure abandons the flush
FlushSerializeFailAborts ==
    /\ flushPc = "serialize"
    /\ flushPc' = "wait"
    /\ lock' = Unlocked
    /\ UNCHANGED <<states, server_ids, notify, serialized_data,
                   ingestPc, ingestReq, reports, ingested>>
    /\ UNCHANGED <<busVars, gatewayVars, agentVars, bridgeVars, retryVars, timingVars>>

\* rpc_service.rs:79-85  serde_json::to_string returns Err: the error is
\* logged and the payload is the empty string
FlushSerializeFail ==
    /\ flushPc = "serialize"
    /\ serialized_data' = EmptyString
    /\ flushPc' = "send"
    /\ UNCHANGED <<states, server_ids, lock, notify,
                   ingestPc, ingestReq, reports, ingested>>
    /\ UNCHANGED <<busVars, gatewayVars, agentVars, bridgeVars, retryVars, timingVars>>

\* variant: the flush addresses the gateway's fixed recipients
FlushCommandFixed(data, ids) == Command(1, data, {1, 2, 3})

\* rpc_service.rs:88-92  the command a flush builds
FlushCommand(data, ids) == Command(1, data, ids)

\* main.rs:18, rpc_service.rs:94  Sender::send returns Err when the channel
\* has no receiver
SendFails == ~wsRx.open /\ \A b \in AgentIds : ~bridgeRx[b].open

\* variant: a publish that fails leaves the window for the next flush
FlushSendKeepsOnFailure ==
    /\ flushPc = "send"
    /\ BusSend(FlushCommand(serialized_data, server_ids), "flush")
    /\ IF SendFails
          THEN flushPc' = "wait" /\ lock' = Unlocked
          ELSE flushPc' = "clear" /\ lock' = lock
    /\ UNCHANGED <<states, server_ids, notify, serialized_data,
                   ingestPc, ingestReq, reports, ingested>>
    /\ UNCHANGED <<gatewayVars, agentVars, bridgeVars, retryVars, timingVars>>

\* rpc_service.rs:88-96
FlushSend ==
    /\ flushPc = "send"
    /\ BusSend(FlushCommand(serialized_data, server_ids), "flush")
    /\ flushPc' = "clear"
    /\ UNCHANGED <<states, server_ids, lock, notify, serialized_data,
                   ingestPc, ingestReq, reports, ingested>>
    /\ UNCHANGED <<gatewayVars, agentVars, bridgeVars, retryVars, timingVars>>

\* variant: only the samples are cleared
FlushClearStatesOnly ==
    /\ flushPc = "clear"
    /\ states' = <<>>
    /\ lock' = Unlocked
    /\ flushPc' = "wait"
    /\ UNCHANGED <<server_ids, notify, serialized_data, ingestPc, ingestReq, reports,
                   ingested>>
    /\ UNCHANGED <<busVars, gatewayVars, agentVars, bridgeVars, retryVars, timingVars>>

\* rpc_service.rs:99-100, then the guard drops at the end of the iteration
FlushClear ==
    /\ flushPc = "clear"
    /\ states' = <<>>
    /\ server_ids' = {}
    /\ lock' = Unlocked
    /\ flushPc' = "wait"
    /\ UNCHANGED <<notify, serialized_data, ingestPc, ingestReq, reports, ingested>>
    /\ UNCHANGED <<busVars, gatewayVars, agentVars, bridgeVars, retryVars, timingVars>>

(***************************************************************************)
(* handle_socket (the external command gateway), one operator connection   *)
(***************************************************************************)
\* ws_handler.rs:82,105,126  server_ids: vec![1, 2, 3]
GatewayRecipients == {1, 2, 3}

\* ws_handler.rs:79-83, 102-106, 123-127
GatewayCommand(t) == Command(0, Tag(t), GatewayRecipients)

\* what socket.recv() can return: text frames ("noop" is any other text), a
\* binary frame, a close frame, a receive error, the end of the stream
TextFrames == {"start", "stop", "noop"}
ClosingFrames == {"close", "error", "eof"}
Frames == TextFrames \cup {"binary"} \cup ClosingFrames

OperatorClosed == \E i \in 1..Len(wsSent) : wsSent[i] \in ClosingFrames

\* the operator's side of the connection: one more frame arrives
OperatorSend(f) ==
    /\ Len(wsSent) < MaxFrames
    /\ ~OperatorClosed
    /\ wsSent' = Append(wsSent, f)
    /\ UNCHANGED <<wsPc, wsRead, wsPending, wsOut, traffic>>
    /\ UNCHANGED <<collectorVars, busVars, agentVars, bridgeVars, retryVars, timingVars>>

\* ws_handler.rs:100-137  the command a text frame is translated to, if any
Translate(f) ==
    CASE f = "start" -> <<GatewayCommand("report_state")>>
      [] f = "stop"  -> <<GatewayCommand("stop_report_state")>>
      [] OTHER       -> <<>>

\* ws_handler.rs:76-91  what a close frame makes the gateway send
OnClose(f) == IF f = "close" THEN <<GatewayCommand("stop_report_state")>> ELSE <<>>

\* ws_handler.rs:68-137  one turn of the outer loop: a frame is received and
\* handled up to the command it sends
WsRecv ==
    /\ wsPc = "recv"
    /\ wsRead < Len(wsSent)
    /\ wsRead' = wsRead + 1
    /\ LET f == wsSent[wsRead + 1]
           out == IF f \in TextFrames THEN Translate(f) ELSE OnClose(f)
       IN /\ wsPc' = IF f \notin TextFrames THEN "done"
                     ELSE IF f = "start" THEN "subscribe" ELSE "recv"
          /\ IF out # <<>>
                THEN BusSend(out[1], f)
                ELSE UNCHANGED busVars
    /\ UNCHANGED <<wsSent, wsPending, wsOut, traffic>>
    /\ UNCHANGED <<collectorVars, agentVars, bridgeVars, retryVars, timingVars>>

\* ws_handler.rs:113  let mut rx = command_tx.subscribe()
WsSubscribe ==
    /\ wsPc = "subscribe"
    /\ wsRx' = NewReceiver
    /\ wsPc' = "relay"
    /\ UNCHANGED <<published, bridgeRx, wsSent, wsRead, wsPending, wsOut, traffic>>
    /\ UNCHANGED <<collectorVars, agentVars, bridgeVars, retryVars, timingVars>>

\* ws_handler.rs:114  while let Ok(res) = rx.recv().await: a lagged receiver
\* gets Err(Lagged), which ends the loop and drops rx; the channel never closes
\* because this task holds command_tx
WsRelayRecv ==
    /\ wsPc = "relay"
    /\ IF wsRx.lagged
          THEN /\ wsRx' = NoReceiver
               /\ wsPc' = "recv"
               /\ UNCHANGED wsPending
          ELSE /\ wsRx.queue # <<>>
               /\ wsPending' = Head(wsRx.queue).data
               /\ wsRx' = [wsRx EXCEPT !.queue = Tail(@)]
               /\ wsPc' = "relay_send"
    /\ UNCHANGED <<published, bridgeRx, wsSent, wsRead, wsOut, traffic>>
    /\ UNCHANGED <<collectorVars, agentVars, bridgeVars, retryVars, timingVars>>

\* ws_handler.rs:116-118  socket.send(..).await; a failure is only logged
WsRelaySend ==
    /\ wsPc = "relay_send"
    /\ wsOut' = IF OperatorClosed THEN wsOut ELSE Append(wsOut, wsPending)
    /\ wsPc' = "relay"
    /\ UNCHANGED <<wsSent, wsRead, wsPending, traffic>>
    /\ UNCHANGED <<collectorVars, busVars, agentVars, bridgeVars, retryVars, timingVars>>

\* rpc_service.rs:94  the flush task sends an aggregated-state command while
\* the connection is served
BusTraffic ==
    /\ traffic < MaxTraffic
    /\ traffic' = traffic + 1
    /\ BusSend(FlushCommand(ToJson(<<Snapshot(1, traffic + 1)>>), {1}), "flush")
    /\ UNCHANGED <<wsPc, wsSent, wsRead, wsPending, wsOut>>
    /\ UNCHANGED <<collectorVars, agentVars, bridgeVars, retryVars, timingVars>>

(***************************************************************************)
(* ServerMonitorAgent: the command stream handler and the reporting loop   *)
(***************************************************************************)
NoCommand == Command(0, Tag("none"), {})

CommandTags == {"stop_report_state", "report_state", "report_host", "report_ip", "other"}

\* what the collector may put on agent a's stream
AgentCommands(a) ==
    {Command(0, Tag(t), ids) :
        t \in CommandTags, ids \in {GatewayRecipients \cup {a}, GatewayRecipients \ {a}}}

\* the wrappers: the connect loop of new(), send_command, report_server_state
Wrappers == {"connect", "send_command", "report_server_state"}

\* variant: the attempts are found exhausted one failure later
ExhaustedLate(w, attempts) == attempts > RETRY_ATTEMPTS

\* monitor.rs:48 (attempts >= RETRY_ATTEMPTS), 81 and 194 (attempts ==
\* RETRY_ATTEMPTS), tested after the failed attempt was counted
Exhausted(w, attempts) ==
    IF w = "connect" THEN attempts >= RETRY_ATTEMPTS ELSE attempts = RETRY_ATTEMPTS

\* monitor.rs:76, 189  while attempts < RETRY_ATTEMPTS; the connect loop has
\* no such test
MayAttempt(w, attempts) == w = "connect" \/ attempts < RETRY_ATTEMPTS

\* monitor.rs:215-238  try_report_state: the outcome of the ReportState call
\* is dropped (let _ =), the attempt is Ok whatever it was
TryReportState(rpcOk) == TRUE

\* what the wrapped operation returns when its call to the collector has
\* the outcome ok: connect() and try_send_command return the failure
OpResult(w, ok) == IF w = "report_server_state" THEN TryReportState(ok) ELSE ok

\* a wrapper about to start
NewRetry == [pc |-> "call", attempts |-> 0, calls |-> 0, sleeps |-> 0,
             failures |-> 0, result |-> "none"]

\* monitor.rs:36-62, 73-99, 180-212  one turn of a wrapper's loop: the
\* operation is run; Ok is returned at once, a failure is counted and either
\* returned as the wrapper's error or followed by a sleep
RetryCall(w, ok) ==
    /\ retry[w].pc = "call"
    /\ retry' = [retry EXCEPT ![w] =
          IF ~MayAttempt(w, @.attempts)
             THEN [@ EXCEPT !.pc = "returned", !.result = "ok"]
          ELSE IF OpResult(w, ok)
             THEN [@ EXCEPT !.pc = "returned", !.result = "ok", !.calls = @ + 1]
          ELSE IF Exhausted(w, @.attempts + 1)
             THEN [@ EXCEPT !.pc = "returned", !.result = "err", !.calls = @ + 1,
                            !.attempts = @ + 1, !.failures = @ + 1]
          ELSE [@ EXCEPT !.pc = "sleep", !.calls = @ + 1,
                         !.attempts = @ + 1, !.failures = @ + 1]]
    /\ UNCHANGED <<collectorVars, busVars, gatewayVars, agentVars, bridgeVars, timingVars>>

\* monitor.rs:58, 96, 209  time::sleep(RETRY_DELAY_SECS)
RetrySleep(w) ==
    /\ retry[w].pc = "sleep"
    /\ retry' = [retry EXCEPT ![w] = [@ EXCEPT !.pc = "call", !.sleeps = @ + 1]]
    /\ UNCHANGED <<collectorVars, busVars, gatewayVars, agentVars, bridgeVars, timingVars>>

\* monitor.rs:78-96  send_command counts a failed attempt of
\* try_send_command: it gives up or is about to sleep
AttemptFailed(a) ==
    /\ cmdAttempts' = [cmdAttempts EXCEPT ![a] = @ + 1]
    /\ agentPc' = [agentPc EXCEPT ![a] =
                       IF Exhausted("send_command", cmdAttempts[a] + 1)
                          THEN "exit" ELSE "sleep"]

\* monitor.rs:76-77, 102-115  try_send_command opens the stream, or fails to
AgentOpen(a) ==
    /\ agentPc[a] = "open"
    /\ MayAttempt("send_command", cmdAttempts[a])
    /\ \E ok \in BOOLEAN :
          IF ok
             THEN /\ agentPc' = [agentPc EXCEPT ![a] = "recv"]
                  /\ opened' = [opened EXCEPT ![a] = @ + 1]
                  /\ stream' = [stream EXCEPT ![a] = <<>>]
                  /\ streamEnded' = [streamEnded EXCEPT ![a] = FALSE]
                  /\ streamErr' = [streamErr EXCEPT ![a] = FALSE]
                  /\ UNCHANGED cmdAttempts
             ELSE /\ AttemptFailed(a)
                  /\ UNCHANGED <<opened, stream, streamEnded, streamErr>>
    /\ UNCHANGED <<report_state, delivered, lastCmd, rpcs, ticks, ticksSinceStop,
                   reportAttempts, rpcFailed>>
    /\ UNCHANGED <<collectorVars, busVars, gatewayVars, bridgeVars, retryVars, timingVars>>

\* cmd is a stop_report_state for agent a, sent while a runs the reporting loop
StopWhileReporting(a, cmd) ==
    /\ cmd.data = Tag("stop_report_state")
    /\ a \in cmd.server_ids
    /\ report_state[a]
    /\ agentPc[a] \in {"loop", "report", "tick"}

\* rpc_service.rs:190  a bridge forwards a command to the agent's stream
StreamDeliver(a, cmd) ==
    /\ agentPc[a] \notin {"open", "sleep", "exit"}
    /\ ~streamEnded[a]
    /\ delivered[a] < MaxCommands
    /\ delivered' = [delivered EXCEPT ![a] = @ + 1]
    /\ stream' = [stream EXCEPT ![a] = Append(@, cmd)]
    /\ ticksSinceStop' = [ticksSinceStop EXCEPT ![a] =
                             IF StopWhileReporting(a, cmd) /\ @ = -1 THEN 0 ELSE @]
    /\ UNCHANGED <<agentPc, report_state, streamEnded, lastCmd, rpcs, ticks>>
    /\ UNCHANGED agentRetryVars
    /\ UNCHANGED <<collectorVars, busVars, gatewayVars, bridgeVars, retryVars, timingVars>>

\* rpc_service.rs:187-207  the bridge ends and the stream closes
StreamClose(a) ==
    /\ agentPc[a] \notin {"open", "sleep", "exit"}
    /\ ~streamEnded[a]
    /\ streamEnded' = [streamEnded EXCEPT ![a] = TRUE]
    /\ UNCHANGED <<agentPc, report_state, stream, delivered, lastCmd, rpcs, ticks,
                   ticksSinceStop>>
    /\ UNCHANGED agentRetryVars
    /\ UNCHANGED <<collectorVars, busVars, gatewayVars, bridgeVars, retryVars, timingVars>>

\* the stream breaks: after what it carries, stream.next() yields Err(Status)
StreamFail(a) ==
    /\ agentPc[a] \notin {"open", "sleep", "exit"}
    /\ ~streamEnded[a]
    /\ streamEnded' = [streamEnded EXCEPT ![a] = TRUE]
    /\ streamErr' = [streamErr EXCEPT ![a] = TRUE]
    /\ UNCHANGED <<agentPc, report_state, stream, delivered, lastCmd, rpcs, ticks,
                   ticksSinceStop, cmdAttempts, reportAttempts, opened, rpcFailed>>
    /\ UNCHANGED <<collectorVars, busVars, gatewayVars, bridgeVars, retryVars, timingVars>>

\* variant: the recipient list is not consulted
AddressedAlways(a, cmd) == TRUE

\* monitor.rs:132  command.server_ids.contains(&self.server_id)
Addressed(a, cmd) == a \in cmd.server_ids

\* monitor.rs:311-321  shutdown(): the flag after it, and the final report it makes
ShutdownFlag(flag) == FALSE
ShutdownReports(flag) == IF flag THEN 1 ELSE 0

\* monitor.rs:117-118, 125-155  stream.next() yields a command; parse_command
\* handles it, up to the point where report_state enters the reporting loop
AgentRecv(a) ==
    /\ agentPc[a] = "recv"
    /\ stream[a] # <<>>
    /\ LET cmd == Head(stream[a]) IN
       /\ stream' = [stream EXCEPT ![a] = Tail(@)]
       /\ lastCmd' = [lastCmd EXCEPT ![a] = cmd]
       /\ IF ~Addressed(a, cmd)
             THEN UNCHANGED <<agentPc, report_state, rpcs>>
          ELSE IF cmd.data = Tag("stop_report_state")
             THEN /\ report_state' = [report_state EXCEPT ![a] = ShutdownFlag(@)]
                  /\ rpcs' = [rpcs EXCEPT ![a].state = @ + ShutdownReports(report_state[a])]
                  /\ UNCHANGED agentPc
          ELSE IF cmd.data = Tag("report_state")
             THEN /\ report_state' = [report_state EXCEPT ![a] = TRUE]
                  /\ agentPc' = [agentPc EXCEPT ![a] = "loop"]
                  /\ UNCHANGED rpcs
          \* report_host and report_ip build a request and drop it (monitor.rs:144-150,
          \* 263-286); any other tag is printed
          ELSE UNCHANGED <<agentPc, report_state, rpcs>>
    /\ UNCHANGED <<streamEnded, delivered, ticks, ticksSinceStop>>
    /\ UNCHANGED agentRetryVars
    /\ UNCHANGED <<collectorVars, busVars, gatewayVars, bridgeVars, retryVars, timingVars>>

\* variant: the agent opens a new stream when the collector closes its stream
AgentStreamEndReopens(a) ==
    /\ agentPc[a] = "recv"
    /\ stream[a] = <<>>
    /\ streamEnded[a]
    /\ ~streamErr[a]
    /\ agentPc' = [agentPc EXCEPT ![a] = "open"]
    /\ UNCHANGED <<report_state, stream, streamEnded, delivered, lastCmd, rpcs,
                   ticks, ticksSinceStop>>
    /\ UNCHANGED agentRetryVars
    /\ UNCHANGED <<collectorVars, busVars, gatewayVars, bridgeVars, retryVars, timingVars>>

\* monitor.rs:117-121, 78  stream.next() yields None: try_send_command
\* returns Ok and send_command returns with it
AgentStreamEnd(a) ==
    /\ agentPc[a] = "recv"
    /\ stream[a] = <<>>
    /\ streamEnded[a]
    /\ ~streamErr[a]
    /\ agentPc' = [agentPc EXCEPT ![a] = "exit"]
    /\ UNCHANGED <<report_state, stream, streamEnded, delivered, lastCmd, rpcs,
                   ticks, ticksSinceStop>>
    /\ UNCHANGED agentRetryVars
    /\ UNCHANGED <<collectorVars, busVars, gatewayVars, bridgeVars, retryVars, timingVars>>

\* monitor.rs:117-118, 129, 79-96  stream.next() yields Err(Status):
\* parse_command returns it, try_send_command fails, send_command counts a
\* failed attempt
AgentStreamError(a) ==
    /\ agentPc[a] = "recv"
    /\ stream[a] = <<>>
    /\ streamEnded[a]
    /\ streamErr[a]
    /\ AttemptFailed(a)
    /\ UNCHANGED <<report_state, stream, streamEnded, delivered, lastCmd, rpcs,
                   ticks, ticksSinceStop, reportAttempts, opened, streamErr, rpcFailed>>
    /\ UNCHANGED <<collectorVars, busVars, gatewayVars, bridgeVars, retryVars, timingVars>>

\* monitor.rs:96  time::sleep(RETRY_DELAY_SECS), then the next attempt
AgentRetrySleep(a) ==
    /\ agentPc[a] = "sleep"
    /\ agentPc' = [agentPc EXCEPT ![a] = "open"]
    /\ UNCHANGED <<report_state, stream, streamEnded, delivered, lastCmd, rpcs,
                   ticks, ticksSinceStop>>
    /\ UNCHANGED agentRetryVars
    /\ UNCHANGED <<collectorVars, busVars, gatewayVars, bridgeVars, retryVars, timingVars>>

\* monitor.rs:161  while self.report_state
AgentLoop(a) ==
    /\ agentPc[a] = "loop"
    /\ IF report_state[a]
          THEN /\ ticks[a] < MaxTicks
               /\ ticks' = [ticks EXCEPT ![a] = @ + 1]
               /\ ticksSinceStop' = [ticksSinceStop EXCEPT ![a] =
                                        IF @ >= 0 THEN @ + 1 ELSE @]
               /\ agentPc' = [agentPc EXCEPT ![a] = "report"]
          ELSE /\ agentPc' = [agentPc EXCEPT ![a] = "recv"]
               /\ ticksSinceStop' = [ticksSinceStop EXCEPT ![a] = -1]
               /\ UNCHANGED ticks
    /\ UNCHANGED <<report_state, stream, streamEnded, delivered, lastCmd, rpcs>>
    /\ UNCHANGED agentRetryVars
    /\ UNCHANGED <<collectorVars, busVars, gatewayVars, bridgeVars, retryVars, timingVars>>

\* variant: a ReportState call that fails ends the reporting loop
AgentReportPropagates(a) ==
    /\ agentPc[a] = "report"
    /\ \E ok \in BOOLEAN :
          /\ rpcs' = [rpcs EXCEPT ![a].state = @ + 1]
          /\ rpcFailed' = [rpcFailed EXCEPT ![a] = IF ok THEN @ ELSE @ + 1]
          /\ agentPc' = [agentPc EXCEPT ![a] = IF ok THEN "tick" ELSE "recv"]
    /\ UNCHANGED <<report_state, stream, streamEnded, delivered, lastCmd, ticks,
                   ticksSinceStop, cmdAttempts, reportAttempts, opened, streamErr>>
    /\ UNCHANGED <<collectorVars, busVars, gatewayVars, bridgeVars, retryVars, timingVars>>

\* monitor.rs:163-165, 180-238  one attempt of report_server_state: a
\* ReportState call is made; an attempt that fails is counted and followed
\* by another after the delay, and once the attempts are exhausted the
\* error is printed by the loop, which goes on
AgentReport(a) ==
    /\ agentPc[a] = "report"
    /\ \E ok \in BOOLEAN :
          /\ rpcs' = [rpcs EXCEPT ![a].state = @ + 1]
          /\ rpcFailed' = [rpcFailed EXCEPT ![a] = IF ok THEN @ ELSE @ + 1]
          /\ IF TryReportState(ok)
                \/ Exhausted("report_server_state", reportAttempts[a] + 1)
                THEN /\ agentPc' = [agentPc EXCEPT ![a] = "tick"]
                     /\ reportAttempts' = [reportAttempts EXCEPT ![a] = 0]
                ELSE /\ reportAttempts' = [reportAttempts EXCEPT ![a] = @ + 1]
                     /\ UNCHANGED agentPc
    /\ UNCHANGED <<report_state, stream, streamEnded, delivered, lastCmd, ticks,
                   ticksSinceStop, cmdAttempts, opened, streamErr>>
    /\ UNCHANGED <<collectorVars, busVars, gatewayVars, bridgeVars, retryVars, timingVars>>

\* variant: between two reports the agent goes back to its command stream
AgentTickPolls(a) ==
    /\ agentPc[a] = "tick"
    /\ agentPc' = [agentPc EXCEPT ![a] = "recv"]
    /\ UNCHANGED <<report_state, stream, streamEnded, delivered, lastCmd, rpcs,
                   ticks, ticksSinceStop>>
    /\ UNCHANGED agentRetryVars
    /\ UNCHANGED <<collectorVars, busVars, gatewayVars, bridgeVars, retryVars, timingVars>>

\* monitor.rs:168-174  the rest of the tick is awaited, or the interval reset
AgentTick(a) ==
    /\ agentPc[a] = "tick"
    /\ agentPc' = [agentPc EXCEPT ![a] = "loop"]
    /\ UNCHANGED <<report_state, stream, streamEnded, delivered, lastCmd, rpcs,
                   ticks, ticksSinceStop>>
    /\ UNCHANGED agentRetryVars
    /\ UNCHANGED <<collectorVars, busVars, gatewayVars, bridgeVars, retryVars, timingVars>>

(***************************************************************************)
(* StreamBridge: send_command and the task it spawns, one per agent stream *)
(***************************************************************************)
\* items of the request side of the stream: Ok(CommandRequest), with or
\* without agent_info, or Err(Status)
CommandRequest(info) == [err |-> FALSE, agent_info |-> info]
StatusError == [err |-> TRUE, agent_info |-> NoAgent]
ClientItems(b) == {CommandRequest(b), CommandRequest(NoAgent), StatusError}

\* rpc_service.rs:222-230  the acknowledgement of a CommandRequest
Ack(id) == Command(0, Tag("ok"), {id})

\* what no bridge action touches
bridgeFrame == <<published, wsRx, requests, inboundEnded, subscribedAt, collectorVars, gatewayVars,
                 agentPc, report_state, delivered, lastCmd, rpcs, ticks, ticksSinceStop,
                 agentRetryVars, retryVars, timingVars>>

\* variant: a new receiver is handed the value the channel carried last
SubscribeWithBacklog(pub) ==
    [NewReceiver EXCEPT !.queue = IF pub = <<>> THEN <<>> ELSE <<pub[Len(pub)].cmd>>]

\* rpc_service.rs:178  command_tx.subscribe(): the receiver sees only values
\* sent after this call
Subscribe(pub) == NewReceiver

\* rpc_service.rs:173-185, 210  send_command: the receiver is subscribed, the
\* outbound channel created, the task spawned and its clock started
BridgeOpen(b) ==
    /\ bridgePc[b] = "none"
    /\ bridgeRx' = [bridgeRx EXCEPT ![b] = Subscribe(published)]
    /\ subscribedAt' = [subscribedAt EXCEPT ![b] = Len(published)]
    /\ bridgePc' = [bridgePc EXCEPT ![b] = "select"]
    /\ bridgeAge' = [bridgeAge EXCEPT ![b] = 0]
    /\ UNCHANGED <<published, wsRx, bridgeOff, bridgeHeld, inbound, requests,
                   inboundEnded, forwarded>>
    /\ UNCHANGED <<collectorVars, gatewayVars, agentVars, retryVars, timingVars>>

\* rpc_service.rs:187-207  a break: the task ends, command_rx and tx are
\* dropped, the outbound stream closes
BridgeEnd(b) ==
    /\ bridgePc' = [bridgePc EXCEPT ![b] = "done"]
    /\ bridgeRx' = [bridgeRx EXCEPT ![b] = NoReceiver]
    /\ bridgeHeld' = [bridgeHeld EXCEPT ![b] = NoCommand]
    /\ bridgeOff' = [bridgeOff EXCEPT ![b] = FALSE]
    /\ streamEnded' = [streamEnded EXCEPT ![b] = TRUE]

\* the client has dropped the response stream, and with it the mpsc receiver
ReceiverGone(b) == agentPc[b] = "exit"

\* tx.send(..).await can neither complete nor fail: the channel is full and
\* its receiver alive
BridgeBlocked(b) ==
    /\ bridgePc[b] \in {"forward", "ack"}
    /\ ~ReceiverGone(b)
    /\ Len(stream[b]) >= STREAM_CAPACITY

\* variant: recv() hands out the oldest command without removing it
BridgeRecvCmdPeeks(b) ==
    /\ bridgePc[b] = "select"
    /\ ~bridgeOff[b]
    /\ bridgeRx[b].queue # <<>>
    /\ bridgeHeld' = [bridgeHeld EXCEPT ![b] = Head(bridgeRx[b].queue)]
    /\ bridgePc' = [bridgePc EXCEPT ![b] = "forward"]
    /\ UNCHANGED <<bridgeRx, bridgeOff, inbound, bridgeAge, forwarded, stream, streamEnded>>
    /\ UNCHANGED bridgeFrame

\* rpc_service.rs:189  Ok(command) = command_rx.recv(): a command is taken;
\* Err(Lagged) fails the pattern, which disables the branch until the
\* select! completes through another one
BridgeRecvCmd(b) ==
    /\ bridgePc[b] = "select"
    /\ ~bridgeOff[b]
    /\ IF bridgeRx[b].lagged
          THEN /\ bridgeRx' = [bridgeRx EXCEPT ![b].lagged = FALSE]
               /\ bridgeOff' = [bridgeOff EXCEPT ![b] = TRUE]
               /\ UNCHANGED <<bridgePc, bridgeHeld>>
          ELSE /\ bridgeRx[b].queue # <<>>
               /\ bridgeRx' = [bridgeRx EXCEPT ![b].queue = Tail(@)]
               /\ bridgeHeld' = [bridgeHeld EXCEPT ![b] = Head(bridgeRx[b].queue)]
               /\ bridgePc' = [bridgePc EXCEPT ![b] = "forward"]
               /\ UNCHANGED bridgeOff
    /\ UNCHANGED <<inbound, bridgeAge, forwarded, stream, streamEnded>>
    /\ UNCHANGED bridgeFrame

\* variant: the bridge forwards only what is addressed to its agent
BridgeForwardFiltered(b) ==
    /\ bridgePc[b] = "forward"
    /\ IF ReceiverGone(b)
          THEN /\ BridgeEnd(b)
               /\ UNCHANGED <<stream, forwarded>>
          ELSE /\ Len(stream[b]) < STREAM_CAPACITY
               /\ IF b \in bridgeHeld[b].server_ids
                     THEN /\ stream' = [stream EXCEPT ![b] = Append(@, bridgeHeld[b])]
                          /\ forwarded' = [forwarded EXCEPT ![b] = Append(@, bridgeHeld[b])]
                     ELSE UNCHANGED <<stream, forwarded>>
               /\ bridgePc' = [bridgePc EXCEPT ![b] = "select"]
               /\ bridgeHeld' = [bridgeHeld EXCEPT ![b] = NoCommand]
               /\ bridgeOff' = [bridgeOff EXCEPT ![b] = FALSE]
               /\ UNCHANGED <<bridgeRx, streamEnded>>
    /\ UNCHANGED <<inbound, bridgeAge>>
    /\ UNCHANGED bridgeFrame

\* rpc_service.rs:190-193  tx.send(Ok(command)).await inside the branch: it
\* waits for room, and fails only when the receiver is gone
BridgeForward(b) ==
    /\ bridgePc[b] = "forward"
    /\ IF ReceiverGone(b)
          THEN /\ BridgeEnd(b)
               /\ UNCHANGED <<stream, forwarded>>
          ELSE /\ Len(stream[b]) < STREAM_CAPACITY
               /\ stream' = [stream EXCEPT ![b] = Append(@, bridgeHeld[b])]
               /\ forwarded' = [forwarded EXCEPT ![b] = Append(@, bridgeHeld[b])]
               /\ bridgePc' = [bridgePc EXCEPT ![b] = "select"]
               /\ bridgeHeld' = [bridgeHeld EXCEPT ![b] = NoCommand]
               /\ bridgeOff' = [bridgeOff EXCEPT ![b] = FALSE]
               /\ UNCHANGED <<bridgeRx, streamEnded>>
    /\ UNCHANGED <<inbound, bridgeAge>>
    /\ UNCHANGED bridgeFrame

\* rpc_service.rs:195-200, 215-230  Some(request) = stream.next(), then
\* handle_grpc_command up to its tx.send: Err(Status) and a request without
\* agent_info make it return Err, on which the loop breaks
BridgeRecvReq(b) ==
    /\ bridgePc[b] = "select"
    /\ inbound[b] # <<>>
    /\ inbound' = [inbound EXCEPT ![b] = Tail(@)]
    /\ LET item == Head(inbound[b]) IN
       IF item.err \/ item.agent_info = NoAgent
          THEN BridgeEnd(b)
          ELSE /\ bridgeHeld' = [bridgeHeld EXCEPT ![b] = Ack(item.agent_info)]
               /\ bridgePc' = [bridgePc EXCEPT ![b] = "ack"]
               /\ bridgeOff' = [bridgeOff EXCEPT ![b] = FALSE]
               /\ UNCHANGED <<bridgeRx, streamEnded>>
    /\ UNCHANGED <<bridgeAge, forwarded, stream>>
    /\ UNCHANGED bridgeFrame

\* rpc_service.rs:232-235  handle_grpc_command's tx.send(Ok(command)).await
BridgeAck(b) ==
    /\ bridgePc[b] = "ack"
    /\ IF ReceiverGone(b)
          THEN /\ BridgeEnd(b)
               /\ UNCHANGED stream
          ELSE /\ Len(stream[b]) < STREAM_CAPACITY
               /\ stream' = [stream EXCEPT ![b] = Append(@, bridgeHeld[b])]
               /\ bridgePc' = [bridgePc EXCEPT ![b] = "select"]
               /\ bridgeHeld' = [bridgeHeld EXCEPT ![b] = NoCommand]
               /\ UNCHANGED <<bridgeRx, bridgeOff, streamEnded>>
    /\ UNCHANGED <<inbound, bridgeAge, forwarded>>
    /\ UNCHANGED bridgeFrame

\* rpc_service.rs:184-185, 201  sleep_until(start + timeout) is ready
DeadlinePassed(age) == age >= COMMAND_TIMEOUT_SECONDS

\* rpc_service.rs:201-204  the timeout branch of the select!
BridgeTimeout(b) ==
    /\ bridgePc[b] = "select"
    /\ DeadlinePassed(bridgeAge[b])
    /\ BridgeEnd(b)
    /\ UNCHANGED <<inbound, bridgeAge, forwarded, stream>>
    /\ UNCHANGED bridgeFrame

\* the clock advances while the bridge waits: in the select! until the
\* timeout branch is ready, in tx.send for as long as it is blocked
BridgeTick(b) ==
    /\ \/ bridgePc[b] = "select" /\ ~DeadlinePassed(bridgeAge[b])
       \/ BridgeBlocked(b)
    /\ bridgeAge[b] <= COMMAND_TIMEOUT_SECONDS
    /\ bridgeAge' = [bridgeAge EXCEPT ![b] = @ + 1]
    /\ UNCHANGED <<bridgeRx, bridgePc, bridgeOff, bridgeHeld, inbound, forwarded,
                   stream, streamEnded>>
    /\ UNCHANGED bridgeFrame

\* monitor.rs:104-115  the client puts an item on the request side
ClientSend(b, item) ==
    /\ bridgePc[b] \in {"select", "forward", "ack"}
    /\ ~inboundEnded[b]
    /\ requests[b] < MaxRequests
    /\ requests' = [requests EXCEPT ![b] = @ + 1]
    /\ inbound' = [inbound EXCEPT ![b] = Append(@, item)]
    /\ UNCHANGED <<bridgePc, bridgeOff, bridgeHeld, inboundEnded, bridgeAge, forwarded,
                   subscribedAt>>
    /\ UNCHANGED <<collectorVars, busVars, gatewayVars, agentVars, retryVars, timingVars>>

\* monitor.rs:103, 121  the client ends the request side of the stream: the
\* bridge's stream.next() yields None from then on, which only disables that
\* branch of the select! (rpc_service.rs:195)
ClientEnd(b) ==
    /\ bridgePc[b] \in {"select", "forward", "ack"}
    /\ ~inboundEnded[b]
    /\ inboundEnded' = [inboundEnded EXCEPT ![b] = TRUE]
    /\ UNCHANGED <<bridgePc, bridgeOff, bridgeHeld, inbound, requests, bridgeAge,
                   forwarded, subscribedAt>>
    /\ UNCHANGED <<collectorVars, busVars, gatewayVars, agentVars, retryVars, timingVars>>

\* monitor.rs:117  the client takes the next item of the response stream
ClientTake(b) ==
    /\ ~ReceiverGone(b)
    /\ stream[b] # <<>>
    /\ stream' = [stream EXCEPT ![b] = Tail(@)]
    /\ UNCHANGED <<agentPc, report_state, streamEnded, delivered, lastCmd, rpcs,
                   ticks, ticksSinceStop>>
    /\ UNCHANGED agentRetryVars
    /\ UNCHANGED <<collectorVars, busVars, gatewayVars, bridgeVars, retryVars, timingVars>>

\* the client goes away and its response stream is dropped
ClientDrop(b) ==
    /\ bridgePc[b] # "none"
    /\ ~ReceiverGone(b)
    /\ agentPc' = [agentPc EXCEPT ![b] = "exit"]
    /\ UNCHANGED <<report_state, stream, streamEnded, delivered, lastCmd, rpcs,
                   ticks, ticksSinceStop>>
    /\ UNCHANGED agentRetryVars
    /\ UNCHANGED <<collectorVars, busVars, gatewayVars, bridgeVars, retryVars, timingVars>>

(***************************************************************************)
(* start_reporting_state on the clock (monitor.rs:158-177), in half seconds *)
(***************************************************************************)
\* command.rs:23-26  --state-report-interval, in seconds (default 1), here in
\* half seconds
Intervals == {2, 4}

\* nothing of the loop has run
NoTiming == [pc |-> "idle", interval |-> 0, now |-> 0, tickAt |-> 0, start |-> 0,
             prevStart |-> 0, prevDur |-> 0, n |-> 0]

Max(x, y) == IF x > y THEN x ELSE y

\* monitor.rs:159  tokio::time::interval(Duration::from_secs(1)): the period
\* is fixed whatever interval was configured, and the first tick is due at once
TimingBegin(d) ==
    /\ timing.pc = "idle"
    /\ timing' = [timing EXCEPT !.pc = "test", !.interval = d, !.tickAt = timing.now]
    /\ UNCHANGED <<collectorVars, busVars, gatewayVars, agentVars, bridgeVars, retryVars>>

\* monitor.rs:161-162  while self.report_state; start = Instant::now()
TimingStart ==
    /\ timing.pc = "test"
    /\ timing.n < MaxAttempts
    /\ timing' = [timing EXCEPT !.pc = "report", !.n = @ + 1, !.start = timing.now,
                                !.prevStart = timing.start]
    /\ UNCHANGED <<collectorVars, busVars, gatewayVars, agentVars, bridgeVars, retryVars>>

\* monitor.rs:163-174  the report takes dur; with elapsed under one second
\* the tick is awaited, otherwise the interval is reset to one period from now
TimingReport(dur) ==
    /\ timing.pc = "report"
    /\ timing' = IF dur < TICK_PERIOD
                    THEN [timing EXCEPT !.pc = "tick", !.now = @ + dur, !.prevDur = dur]
                    ELSE [timing EXCEPT !.pc = "test", !.now = @ + dur, !.prevDur = dur,
                                        !.tickAt = timing.now + dur + TICK_PERIOD]
    /\ UNCHANGED <<collectorVars, busVars, gatewayVars, agentVars, bridgeVars, retryVars>>

\* monitor.rs:169  interval.tick().await completes when the tick is due, at
\* once if it already is; the next tick is due one period after this one was
TimingTick ==
    /\ timing.pc = "tick"
    /\ timing' = [timing EXCEPT !.pc = "test", !.now = Max(@, timing.tickAt),
                                !.tickAt = @ + TICK_PERIOD]
    /\ UNCHANGED <<collectorVars, busVars, gatewayVars, agentVars, bridgeVars, retryVars>>

(***************************************************************************)
(* Specifications                                                          *)
(***************************************************************************)
InitCollector ==
    /\ states = <<>>
    /\ server_ids = {}
    /\ lock = Unlocked
    /\ notify = FALSE
    /\ flushPc = "wait"
    /\ serialized_data = ToJson(<<>>)
    /\ ingestPc = [a \in AgentIds |-> "idle"]
    /\ ingestReq = [a \in AgentIds |-> NoRequest]
    /\ reports = 0
    /\ ingested = {}

\* main.rs:18  the channel is created and its first receiver dropped at once
InitBus ==
    /\ published = <<>>
    /\ wsRx = NoReceiver
    /\ bridgeRx = [b \in AgentIds |-> NoReceiver]

InitGateway ==
    /\ wsPc = "recv"
    /\ wsSent = <<>>
    /\ wsRead = 0
    /\ wsPending = Tag("none")
    /\ wsOut = <<>>
    /\ traffic = 0

\* monitor.rs:64-69  report_state: false
InitAgent ==
    /\ agentPc = [a \in AgentIds |-> "open"]
    /\ report_state = [a \in AgentIds |-> FALSE]
    /\ stream = [a \in AgentIds |-> <<>>]
    /\ streamEnded = [a \in AgentIds |-> FALSE]
    /\ delivered = [a \in AgentIds |-> 0]
    /\ lastCmd = [a \in AgentIds |-> NoCommand]
    /\ rpcs = [a \in AgentIds |-> [state |-> 0, host |-> 0, ip |-> 0]]
    /\ ticks = [a \in AgentIds |-> 0]
    /\ ticksSinceStop = [a \in AgentIds |-> -1]
    /\ cmdAttempts = [a \in AgentIds |-> 0]
    /\ reportAttempts = [a \in AgentIds |-> 0]
    /\ opened = [a \in AgentIds |-> 0]
    /\ streamErr = [a \in AgentIds |-> FALSE]
    /\ rpcFailed = [a \in AgentIds |-> 0]

InitBridge ==
    /\ bridgePc = [b \in AgentIds |-> "none"]
    /\ bridgeOff = [b \in AgentIds |-> FALSE]
    /\ bridgeHeld = [b \in AgentIds |-> NoCommand]
    /\ inbound = [b \in AgentIds |-> <<>>]
    /\ requests = [b \in AgentIds |-> 0]
    /\ inboundEnded = [b \in AgentIds |-> FALSE]
    /\ bridgeAge = [b \in AgentIds |-> 0]
    /\ forwarded = [b \in AgentIds |-> <<>>]
    /\ subscribedAt = [b \in AgentIds |-> 0]

InitRetry == retry = [w \in Wrappers |-> NewRetry]

InitTiming == timing = NoTiming

Init == InitCollector /\ InitBus /\ InitGateway /\ InitAgent /\ InitBridge /\ InitRetry
        /\ InitTiming

NextCollector ==
    \/ \E a \in AgentIds : IngestRecv(a)
    \/ \E a \in AgentIds : IngestLock(a)
    \/ \E a \in AgentIds : IngestPush(a)
    \/ \E a \in AgentIds : IngestInsert(a)
    \/ FlushWake
    \/ FlushLock
    \/ FlushCheck
    \/ FlushSerialize
    \/ FlushSend
    \/ FlushClear

SpecCollector == Init /\ [][NextCollector]_vars

\* the collector with a serializer that can fail, serving three callers
FaultyCallers == {1, 2, 3}

NextCollectorFaulty ==
    \/ \E a \in FaultyCallers : IngestRecv(a)
    \/ \E a \in FaultyCallers : IngestLock(a)
    \/ \E a \in FaultyCallers : IngestPush(a)
    \/ \E a \in FaultyCallers : IngestInsert(a)
    \/ FlushWake
    \/ FlushLock
    \/ FlushCheck
    \/ FlushSerialize
    \/ FlushSerializeFail
    \/ FlushSend
    \/ FlushClear

SpecCollectorFaulty == Init /\ [][NextCollectorFaulty]_vars

\* the collector under fair scheduling, serving two callers: every task that
\* can run does run, and the Mutex hands the lock to the flush task in its
\* turn (tokio's Mutex is first come, first served)
FairCallers == {1, 2}

NextCollectorFair ==
    \/ \E a \in FairCallers : IngestRecv(a)
    \/ \E a \in FairCallers : IngestLock(a)
    \/ \E a \in FairCallers : IngestPush(a)
    \/ \E a \in FairCallers : IngestInsert(a)
    \/ FlushWake
    \/ FlushLock
    \/ FlushCheck
    \/ FlushSerialize
    \/ FlushSend
    \/ FlushClear

FairCollector ==
    /\ \A a \in FairCallers : WF_vars(IngestPush(a)) /\ WF_vars(IngestInsert(a))
    /\ WF_vars(FlushWake)
    /\ SF_vars(FlushLock)
    /\ WF_vars(FlushCheck)
    /\ WF_vars(FlushSerialize)
    /\ WF_vars(FlushSend)
    /\ WF_vars(FlushClear)

SpecCollectorFair == Init /\ [][NextCollectorFair]_vars /\ FairCollector

NextGateway ==
    \/ \E f \in Frames : OperatorSend(f)
    \/ WsRecv
    \/ WsSubscribe
    \/ WsRelayRecv
    \/ WsRelaySend
    \/ BusTraffic

SpecGateway == Init /\ [][NextGateway]_vars

\* the runtime schedules the connection's task whenever it can make a step
FairGateway ==
    /\ WF_vars(WsRecv)
    /\ WF_vars(WsSubscribe)
    /\ WF_vars(WsRelayRecv)
    /\ WF_vars(WsRelaySend)

SpecGatewayFair == SpecGateway /\ FairGateway

\* the agent followed; agents share no state with one another
RunningAgents == {1}

NextAgent ==
    \/ \E a \in RunningAgents : AgentOpen(a)
    \/ \E a \in RunningAgents : \E cmd \in AgentCommands(a) : StreamDeliver(a, cmd)
    \/ \E a \in RunningAgents : StreamClose(a)
    \/ \E a \in RunningAgents : StreamFail(a)
    \/ \E a \in RunningAgents : AgentStreamError(a)
    \/ \E a \in RunningAgents : AgentRetrySleep(a)
    \/ \E a \in RunningAgents : AgentRecv(a)
    \/ \E a \in RunningAgents : AgentStreamEnd(a)
    \/ \E a \in RunningAgents : AgentLoop(a)
    \/ \E a \in RunningAgents : AgentReport(a)
    \/ \E a \in RunningAgents : AgentTick(a)

SpecAgent == Init /\ [][NextAgent]_vars

NextRetry ==
    \/ \E w \in Wrappers : \E ok \in BOOLEAN : RetryCall(w, ok)
    \/ \E w \in Wrappers : RetrySleep(w)

SpecRetry == Init /\ [][NextRetry]_vars

NextTiming ==
    \/ \E d \in Intervals : TimingBegin(d)
    \/ TimingStart
    \/ \E dur \in 0..MaxDuration : TimingReport(dur)
    \/ TimingTick

SpecTiming == Init /\ [][NextTiming]_vars

\* one bridge followed through everything it can do
TimedBridges == {1}

NextBridge ==
    \/ BusTraffic
    \/ \E b \in TimedBridges : BridgeOpen(b)
    \/ \E b \in TimedBridges : BridgeRecvCmd(b)
    \/ \E b \in TimedBridges : BridgeForward(b)
    \/ \E b \in TimedBridges : BridgeRecvReq(b)
    \/ \E b \in TimedBridges : BridgeAck(b)
    \/ \E b \in TimedBridges : BridgeTimeout(b)
    \/ \E b \in TimedBridges : BridgeTick(b)
    \/ \E b \in TimedBridges : \E item \in ClientItems(b) : ClientSend(b, item)
    \/ \E b \in TimedBridges : ClientEnd(b)
    \/ \E b \in TimedBridges : ClientTake(b)
    \/ \E b \in TimedBridges : ClientDrop(b)

SpecBridge == Init /\ [][NextBridge]_vars

\* two bridges on the bus, followed through subscribing, receiving and forwarding
BusBridges == {1, 2}

NextBus ==
    \/ BusTraffic
    \/ \E b \in BusBridges : BridgeOpen(b)
    \/ \E b \in BusBridges : BridgeRecvCmd(b)
    \/ \E b \in BusBridges : BridgeForward(b)
    \/ \E b \in BusBridges : ClientTake(b)

SpecBus == Init /\ [][NextBus]_vars

\* the whole path of a "start": the operator's connection, the gateway, the
\* bus, one agent with its bridge, and the collector that agent reports to.
\* The operator stays connected, the agent's calls reach the collector and
\* the bridge is within its deadline.
SystemAgents == {1}

\* what the collector and the agent do between the operator's frames
SystemStep ==
    \/ WsRecv
    \/ WsSubscribe
    \/ WsRelayRecv
    \/ WsRelaySend
    \/ \E a \in SystemAgents : AgentOpen(a)
    \/ \E a \in SystemAgents : AgentRetrySleep(a)
    \* rpc_service.rs:173  send_command runs for the stream the agent opened
    \/ \E a \in SystemAgents : agentPc[a] = "recv" /\ BridgeOpen(a)
    \* monitor.rs:105-108  the one CommandRequest the agent puts on the stream
    \/ \E a \in SystemAgents : requests[a] = 0 /\ ClientSend(a, CommandRequest(a))
    \/ \E a \in SystemAgents : BridgeRecvReq(a)
    \/ \E a \in SystemAgents : BridgeAck(a)
    \/ \E a \in SystemAgents : BridgeRecvCmd(a)
    \/ \E a \in SystemAgents : BridgeForward(a)
    \/ \E a \in SystemAgents : AgentRecv(a)
    \/ \E a \in SystemAgents : AgentLoop(a)
    \/ \E a \in SystemAgents : AgentReport(a) /\ rpcFailed' = rpcFailed
    \/ \E a \in SystemAgents : AgentTick(a)
    \* monitor.rs:225, 241-250  each ReportState call of the agent arrives
    \* with its state and agent_info
    \/ \E a \in SystemAgents :
          reports < rpcs[a].state /\ IngestRecv(a) /\ ingestPc'[a] = "lock"
    \/ \E a \in SystemAgents : IngestLock(a)
    \/ \E a \in SystemAgents : IngestPush(a)
    \/ \E a \in SystemAgents : IngestInsert(a)
    \/ FlushWake
    \/ FlushLock
    \/ FlushCheck
    \/ FlushSerialize
    \/ FlushSend
    \/ FlushClear

\* the frames of the operator followed here
SystemFrames == {"start"}

NextSystem ==
    \/ \E f \in SystemFrames : OperatorSend(f)
    \/ SystemStep

SpecSystem == Init /\ [][NextSystem]_vars

(***************************************************************************)
(* Properties                                                              *)
(***************************************************************************)
Last(seq) == seq[Len(seq)]

\* the flush task is inside the window's critical section
FlushInCS == flushPc \in {"check", "serialize", "send", "clear"}
\* an ingest is inside the window's critical section
IngestInCS(a) == ingestPc[a] \in {"push", "insert"}
\* no ingest is between its push and its insert
NoIngestMidway == \A a \in AgentIds : ingestPc[a] # "insert"
\* the commands the flush task has handed to the bus
FlushCommands == {published[i].cmd : i \in {j \in 1..Len(published) : published[j].by = "flush"}}
\* their recipients
FlushedIds == UNION {c.server_ids : c \in FlushCommands}
\* nothing runs or is about to run in the collector
Quiescent ==
    /\ flushPc = "wait"
    /\ ~notify
    /\ \A a \in AgentIds : ingestPc[a] = "idle"

\* how many frames f the operator has sent
SentCount(f) == Cardinality({i \in 1..Len(wsSent) : wsSent[i] = f})
\* how many commands the gateway has broadcast on handling a frame f
BroadcastCount(f) == Cardinality({i \in 1..Len(published) : published[i].by = f})
\* the operator has sent nothing but text frames and, possibly, the closing one
OnlyTextSent == \A i \in 1..Len(wsSent) : wsSent[i] \in TextFrames \cup ClosingFrames
\* a "start" has been broadcast and no stop_report_state after it
Armed ==
    \E i \in 1..Len(published) :
        /\ published[i].by = "start"
        /\ \A j \in (i + 1)..Len(published) : published[j].by \notin {"stop", "close"}

\* C1: an agent running the reporting loop to which an addressed
\* stop_report_state is sent clears its flag and leaves the loop within one
\* tick: it never starts a second iteration after that command was sent.
C1_StopWithinOneTick ==
    \A a \in AgentIds : ticksSinceStop[a] <= 1

\* C2: handling a command whose recipient list lacks the agent's identity,
\* whatever its tag, leaves report_state unchanged and issues no state, host
\* or IP report.
C2_NonRecipientNoEffect ==
    [][\A a \in AgentIds :
          (/\ agentPc[a] = "recv"
           /\ stream[a] # <<>>
           /\ stream'[a] = Tail(stream[a])
           /\ a \notin Head(stream[a]).server_ids)
          => /\ report_state'[a] = report_state[a]
             /\ rpcs'[a] = rpcs[a]
             /\ agentPc'[a] = "recv"]_vars

\* C2 witness: a report_state command not addressed to the agent was handled
\* and the agent is still waiting for commands with its flag clear
C2_Witness ==
    \E a \in AgentIds :
        /\ lastCmd[a].data = Tag("report_state")
        /\ a \notin lastCmd[a].server_ids
        /\ agentPc[a] = "recv"
        /\ ~report_state[a]

\* C3: every flush leaves the window with no snapshot and no identity, and
\* the command it publishes is addressed to exactly the identities the
\* window held immediately before.
C3_FlushClearsWindow ==
    [][/\ (flushPc = "send" /\ flushPc' = "clear")
            => Last(published').cmd.server_ids = server_ids
       /\ (flushPc = "clear" /\ flushPc' = "wait")
            => /\ states' = <<>>
               /\ server_ids' = {}
               /\ Last(published).cmd.server_ids = server_ids]_vars

\* C3 witness: a flush of a window with several identities has completed
C3_Witness ==
    /\ published # <<>>
    /\ flushPc = "wait"
    /\ lock = Unlocked
    /\ states = <<>>
    /\ server_ids = {}
    /\ Cardinality(Last(published).cmd.server_ids) > 1

\* C4: outside an ingest's critical section, the identity set is exactly the
\* set of identities that contributed the snapshots held since the last flush.
C4_IdentitySetMatchesSnapshots ==
    NoIngestMidway => server_ids = Sources(states)

\* C4 witness: the window holds snapshots of every agent, and a flush has
\* already cleared an earlier window
C4_Witness ==
    /\ NoIngestMidway
    /\ published # <<>>
    /\ server_ids = AgentIds
    /\ Sources(states) = AgentIds

\* C5: the window holds one snapshot per identity: the number of buffered
\* snapshots equals the number of identities in the identity set.
C5_OneSnapshotPerIdentity ==
    NoIngestMidway => Len(states) = Cardinality(server_ids)

\* C6 as stated: at the moment the last of the ingests of all M identities
\* completes, the identity set holds all M identities.
C6_AllIdentitiesInWindow ==
    [][(ingested # AgentIds /\ ingested' = AgentIds) => server_ids' = AgentIds]_vars

\* C6 as amended: every identity whose ingest has completed is in the
\* identity set or among the recipients of a command the flush task has
\* handed to the bus meanwhile; while no flush has done so, the identity set
\* is exactly the set of the identities that ingested.
C6_IngestedOrFlushed ==
    /\ ingested \subseteq (server_ids \cup FlushedIds)
    /\ FlushCommands = {} => server_ids = ingested

\* C6 witness: the ingests of all identities have completed with no flush
\* in between
C6_Witness ==
    /\ ingested = AgentIds
    /\ FlushCommands = {}
    /\ \A a \in AgentIds : ingestPc[a] = "idle"
    /\ Cardinality(server_ids) = NumAgents

C8_FlushedAtThreshold ==
    Quiescent => Cardinality(server_ids) # MAX_SERVER_COUNT

\* C8 as amended: a wake-up that finds exactly MAX_SERVER_COUNT identities
\* publishes nothing and leaves the window as it is; a wake-up that finds
\* any other number goes on to flush.
C8_SkippedAtThreshold ==
    [][/\ (flushPc = "check" /\ flushPc' # "check")
            => IF Cardinality(server_ids) = MAX_SERVER_COUNT
                  THEN /\ flushPc' = "wait"
                       /\ lock' = Unlocked
                       /\ published' = published
                       /\ states' = states
                       /\ server_ids' = server_ids
                  ELSE flushPc' = "serialize"
       /\ \A c \in FlushCommands' :
            Cardinality(c.server_ids) # MAX_SERVER_COUNT]_vars

\* C8 witness: the flush task has woken, found MAX_SERVER_COUNT identities
\* and gone back to waiting with the window still full
C8_Witness ==
    /\ Quiescent
    /\ lock = Unlocked
    /\ Cardinality(server_ids) = MAX_SERVER_COUNT
    /\ states # <<>>

\* C9: on a connection carrying text frames, each "start" results in exactly
\* one report_state broadcast, each "stop" in exactly one stop_report_state
\* broadcast, and any other text frame in none.
C9_EachFrameOneBroadcast ==
    /\ [](/\ BroadcastCount("start") <= SentCount("start")
          /\ BroadcastCount("stop") <= SentCount("stop")
          /\ BroadcastCount("noop") = 0
          /\ \A i \in 1..Len(published) :
                /\ published[i].by = "start"
                      => published[i].cmd = GatewayCommand("report_state")
                /\ published[i].by = "stop"
                      => published[i].cmd = GatewayCommand("stop_report_state"))
    /\ <>[](OnlyTextSent => /\ BroadcastCount("start") = SentCount("start")
                            /\ BroadcastCount("stop") = SentCount("stop"))

\* C10: when the operator's channel closes while the fleet is armed, the
\* gateway broadcasts one final stop_report_state and eventually no agent
\* has its report_state flag set.
C10_FinalStopOnClose ==
    (OperatorClosed /\ Armed)
        ~> (/\ BroadcastCount("close") + BroadcastCount("error") + BroadcastCount("eof") = 1
            /\ \A a \in AgentIds : ~report_state[a])

\* a "stop" frame or the closure of the channel has arrived after a "start"
StopArrived ==
    \E i, j \in 1..Len(wsSent) :
        /\ i < j
        /\ wsSent[i] = "start"
        /\ wsSent[j] \in {"stop"} \cup ClosingFrames

\* C11: after "start" the gateway sends one outbound frame per command it
\* takes from the bus, never more frames than commands were broadcast, and
\* once a "stop" frame or the closure of the channel has arrived it takes no
\* further command from the bus to relay.
C11_RelayStopsOnStop ==
    /\ [](Len(wsOut) <= Len(published))
    /\ [][(StopArrived /\ wsPc = "relay") => wsPc' # "relay_send"]_vars

\* C12: a bridge that has been started is over, with its outbound stream
\* closed, by the time COMMAND_TIMEOUT_SECONDS have passed since its start,
\* whether it waits for a broadcast command, for an inbound item or for room
\* on the outbound channel.
C12_BridgeEndsByDeadline ==
    \A b \in AgentIds :
        /\ bridgePc[b] \in {"select", "forward", "ack"}
              => bridgeAge[b] <= COMMAND_TIMEOUT_SECONDS
        /\ bridgePc[b] = "done" => streamEnded[b]

\* the commands published after the first n
PublishedSince(n) == [i \in 1..(Len(published) - n) |-> published[n + i].cmd]

\* s can be obtained from t by leaving values out
RECURSIVE IsSubseq(_, _)
IsSubseq(s, t) ==
    IF s = <<>> THEN TRUE
    ELSE IF t = <<>> THEN FALSE
    ELSE IF Head(s) = Head(t) THEN IsSubseq(Tail(s), Tail(t))
    ELSE IsSubseq(s, Tail(t))

\* every broadcast command bridge b has forwarded, is forwarding or still
\* has to receive, in order
BridgeSeen(b) ==
    forwarded[b]
        \o (IF bridgePc[b] = "forward" THEN <<bridgeHeld[b]>> ELSE <<>>)
        \o bridgeRx[b].queue

\* C13: what a bridge forwards or holds for its agent is drawn, in order,
\* from the commands published after the bridge subscribed; a command
\* published earlier, or while nobody is subscribed, is kept for no one.
C13_NoBacklogForwarded ==
    \A b \in AgentIds :
        /\ IsSubseq(BridgeSeen(b), PublishedSince(subscribedAt[b]))
        /\ ~bridgeRx[b].open => bridgeRx[b].queue = <<>>

\* C13 witness: a bridge opened after a command had been published has
\* forwarded a later one
C13_Witness ==
    \E b \in AgentIds :
        /\ subscribedAt[b] >= 1
        /\ forwarded[b] # <<>>

\* C14: a send on the bus is never held up, whatever the receivers' queues
\* hold; it puts the command last in the queue of every subscribed bridge,
\* displacing at most that bridge's own oldest value; and a bridge that has
\* a command to take or room to forward can do so whatever the other
\* bridges are doing.
C14_SlowBridgeHarmsNoOne ==
    /\ [](traffic < MaxTraffic => ENABLED BusTraffic)
    /\ [](\A b \in BusBridges :
            /\ (/\ bridgePc[b] = "select"
                /\ ~bridgeOff[b]
                /\ bridgeRx[b].queue # <<>>) => ENABLED BridgeRecvCmd(b)
            /\ (/\ bridgePc[b] = "forward"
                /\ Len(stream[b]) < STREAM_CAPACITY) => ENABLED BridgeForward(b))
    /\ [][published' # published =>
            \A b \in AgentIds :
                IF bridgeRx[b].open
                   THEN /\ bridgeRx'[b].queue # <<>>
                        /\ bridgeRx'[b].queue[Len(bridgeRx'[b].queue)]
                              = published'[Len(published')].cmd
                        /\ IsSubseq(bridgeRx'[b].queue,
                                    Append(bridgeRx[b].queue, published'[Len(published')].cmd))
                        /\ Len(bridgeRx'[b].queue) >= Len(bridgeRx[b].queue)
                   ELSE bridgeRx'[b] = bridgeRx[b]]_vars

\* C14 witness: one bridge is stuck on a full outbound channel while the
\* other has forwarded every command published since it subscribed, more
\* than the stuck one has
C14_Witness ==
    \E slow, fast \in BusBridges :
        /\ BridgeBlocked(slow)
        /\ forwarded[fast] = PublishedSince(subscribedAt[fast])
        /\ Len(forwarded[fast]) > Len(forwarded[slow])
        /\ subscribedAt[fast] <= subscribedAt[slow]

\* C20: when a bridge takes a CommandRequest without agent_info from the
\* request side of its stream, only that item fails: the bridge is still
\* running afterwards and its outbound stream is still open.
C20_BadItemFailsAlone ==
    [][\A b \in AgentIds :
          (/\ bridgePc[b] = "select"
           /\ inbound[b] # <<>>
           /\ inbound'[b] = Tail(inbound[b])
           /\ Head(inbound[b]) = CommandRequest(NoAgent))
              => /\ bridgePc'[b] # "done"
                 /\ ~streamEnded'[b]]_vars

Min(x, y) == IF x < y THEN x ELSE y

\* C15: a retry wrapper whose operation failed its first K attempts has,
\* when it returns, run the operation min(K + 1, RETRY_ATTEMPTS) times and
\* slept once between consecutive attempts; it returns success when
\* K < RETRY_ATTEMPTS and an error otherwise.
C15_RetryRunsMinAttempts ==
    \A w \in Wrappers :
        /\ retry[w].calls <= RETRY_ATTEMPTS
        /\ retry[w].pc = "returned" =>
              /\ retry[w].calls = Min(retry[w].failures + 1, RETRY_ATTEMPTS)
              /\ retry[w].sleeps = retry[w].calls - 1
              /\ retry[w].result = IF retry[w].failures < RETRY_ATTEMPTS
                                      THEN "ok" ELSE "err"

\* C15 witness: one wrapper has given up after RETRY_ATTEMPTS attempts and
\* RETRY_ATTEMPTS - 1 sleeps, another has succeeded after failing first
C15_Witness ==
    \E w1, w2 \in Wrappers :
        /\ retry[w1].pc = "returned"
        /\ retry[w1].result = "err"
        /\ retry[w1].calls = RETRY_ATTEMPTS
        /\ retry[w1].sleeps = RETRY_ATTEMPTS - 1
        /\ retry[w2].pc = "returned"
        /\ retry[w2].result = "ok"
        /\ retry[w2].failures >= 1

\* C16: a state-report attempt whose ReportState call fails is counted as a
\* failed attempt: it is followed by another attempt of the same report, or,
\* being the last of RETRY_ATTEMPTS, by the loop's next tick.
C16_FailedRpcIsFailedAttempt ==
    [][\A a \in AgentIds :
          rpcFailed'[a] > rpcFailed[a]
             => \/ /\ agentPc'[a] = "report"
                   /\ reportAttempts'[a] = reportAttempts[a] + 1
                \/ /\ reportAttempts[a] + 1 = RETRY_ATTEMPTS
                   /\ agentPc'[a] = "tick"]_vars

\* C17: a ReportState call that fails leaves the agent in its reporting loop
\* with the flag as it was; from the end of an attempt the loop goes to its
\* tick, from the tick to its test, and from the test, with the flag set, to
\* the next report.
C17_FailedReportKeepsLoop ==
    [][\A a \in AgentIds :
          /\ (agentPc[a] = "report" /\ agentPc'[a] # "report")
                => /\ agentPc'[a] = "tick"
                   /\ report_state'[a] = report_state[a]
          /\ (agentPc[a] = "tick" /\ agentPc'[a] # "tick")
                => agentPc'[a] = "loop"
          /\ (agentPc[a] = "loop" /\ agentPc'[a] # "loop" /\ report_state[a])
                => agentPc'[a] = "report"]_vars

\* C17 witness: after a failed ReportState call the loop has come round to
\* its next report
C17_Witness ==
    \E a \in AgentIds :
        /\ rpcFailed[a] >= 1
        /\ report_state[a]
        /\ agentPc[a] = "report"
        /\ ticks[a] >= 2

\* C18: handling an addressed report_host command issues exactly one
\* ReportHost call and handling an addressed report_ip command exactly one
\* UpdateIp call, before the next command is taken.
C18_HostAndIpReported ==
    [][\A a \in AgentIds :
          (/\ agentPc[a] = "recv"
           /\ stream[a] # <<>>
           /\ stream'[a] = Tail(stream[a])
           /\ a \in Head(stream[a]).server_ids)
          => /\ Head(stream[a]).data = Tag("report_host")
                   => rpcs'[a].host = rpcs[a].host + 1
             /\ Head(stream[a]).data = Tag("report_ip")
                   => rpcs'[a].ip = rpcs[a].ip + 1]_vars

\* C19 as stated: an agent establishes at most one SendCommand stream.
C19_AtMostOneStream ==
    \A a \in AgentIds : opened[a] <= 1

\* C19 as amended: a stream the collector closed ends the handler and the
\* agent for good; a stream that ended with an error is a failed attempt of
\* send_command, after which another stream is opened, so that an agent
\* establishes at most RETRY_ATTEMPTS streams, each but the first after a
\* failed attempt.
C19_ReopensOnlyAfterError ==
    /\ [](\A a \in AgentIds :
            /\ opened[a] <= RETRY_ATTEMPTS
            /\ opened[a] <= cmdAttempts[a] + 1)
    /\ [][\A a \in AgentIds :
            /\ (/\ agentPc[a] = "recv"
                /\ agentPc'[a] # "recv"
                /\ stream[a] = <<>>
                /\ streamEnded[a]
                /\ ~streamErr[a]) => agentPc'[a] = "exit"
            /\ agentPc[a] = "exit"
                  => (agentPc'[a] = "exit" /\ opened'[a] = opened[a])]_vars

\* C19 witness: the agent has established a second stream after the first
\* ended with an error
C19_Witness ==
    \E a \in AgentIds :
        /\ opened[a] = 2
        /\ cmdAttempts[a] >= 1
        /\ agentPc[a] = "recv"

\* C21: in the reporting loop with configured interval D, an attempt that
\* followed one taking at least D started as soon as that one ended, and an
\* attempt that followed one taking less than D started no earlier than D
\* after that one had started; the first attempt is no exception.
C21_NextAttemptAfterInterval ==
    (timing.pc = "report" /\ timing.n >= 2) =>
        IF timing.prevDur >= timing.interval
           THEN timing.start = timing.prevStart + timing.prevDur
           ELSE timing.start >= timing.prevStart + timing.interval

\* C22: a flush whose serialization failed goes on: it publishes one command
\* with the empty string as payload, addressed to the identities of the
\* window, then clears the window, releases the lock and waits for the next
\* wake-up.
C22_FailedSerializationStillFlushes ==
    [][/\ (flushPc = "serialize" /\ flushPc' # "serialize") => flushPc' = "send"
       /\ (flushPc = "send" /\ serialized_data = EmptyString /\ flushPc' # "send")
            => /\ published' = Append(published,
                                  [cmd |-> Command(1, EmptyString, server_ids),
                                   by |-> "flush"])
               /\ flushPc' = "clear"
               /\ states' = states
               /\ server_ids' = server_ids
       /\ (flushPc = "clear" /\ flushPc' # "clear")
            => /\ states' = <<>>
               /\ server_ids' = {}
               /\ lock' = Unlocked
               /\ flushPc' = "wait"]_vars

\* C22 witness: after a flush that published the empty payload for a
\* non-empty window, a later flush has published a serialized window
C22_Witness ==
    \E i, j \in 1..Len(published) :
        /\ i < j
        /\ published[i].cmd.data = EmptyString
        /\ published[i].cmd.server_ids # {}
        /\ published[j].cmd.data # EmptyString
        /\ states = <<>>

\* the agent has ended its side of the stream, or dropped the stream
ClientClosed(b) == inboundEnded[b] \/ ReceiverGone(b)

\* C23: a bridge is subscribed to the bus exactly while its agent's command
\* stream is open; in particular no time passes with a bridge still
\* subscribed for an agent that has closed its side of the stream.
C23_SubscribedWhileStreamOpen ==
    /\ [](\A b \in AgentIds :
            bridgeRx[b].open <=> bridgePc[b] \in {"select", "forward", "ack"})
    /\ [][\A b \in AgentIds :
            (ClientClosed(b) /\ bridgeRx[b].open) => bridgeAge'[b] = bridgeAge[b]]_vars

\* C25: a wake-up of the flush task that finds MAX_SERVER_COUNT identities
\* or more in the window publishes nothing and leaves the window as it is;
\* any other wake-up goes on to publish one command and clear the window.
C25_SkippedAtCeilingOrAbove ==
    [][(flushPc = "check" /\ flushPc' # "check")
          => IF Cardinality(server_ids) >= MAX_SERVER_COUNT
                THEN /\ flushPc' = "wait"
                     /\ lock' = Unlocked
                     /\ published' = published
                     /\ states' = states
                     /\ server_ids' = server_ids
                ELSE flushPc' = "serialize"]_vars

\* C29: every command the flush task has published has at least one
\* recipient and a payload of at least one snapshot.
C29_NoEmptyWindowPublished ==
    \A c \in FlushCommands :
        /\ c.server_ids # {}
        /\ c.data # ToJson(<<>>)

\* C26: while an agent's report_state flag is set the agent is inside its
\* reporting loop, takes nothing from its command stream and handles no
\* command.
C26_NoCommandReadWhileReporting ==
    /\ [](\A a \in AgentIds :
            report_state[a] => agentPc[a] \in {"loop", "report", "tick"})
    /\ [][\A a \in AgentIds :
            report_state[a] => /\ Len(stream'[a]) >= Len(stream[a])
                               /\ lastCmd'[a] = lastCmd[a]]_vars

\* C26 witness: the agent, set reporting by an addressed report_state, has
\* started its second report with a command waiting unread on its stream
C26_Witness ==
    \E a \in AgentIds :
        /\ report_state[a]
        /\ lastCmd[a].data = Tag("report_state")
        /\ a \in lastCmd[a].server_ids
        /\ ticks[a] >= 2
        /\ stream[a] # <<>>

\* C27: the command a bridge takes from its subscription is the one it puts
\* on its agent's stream, with discriminator, payload and recipient list as
\* they were published, whether the agent is among the recipients or not.
C27_ForwardedVerbatim ==
    /\ [](\A b \in AgentIds : \A k \in 1..Len(forwarded[b]) :
            \E i \in 1..Len(published) : published[i].cmd = forwarded[b][k])
    /\ [][\A b \in AgentIds :
            /\ (bridgePc[b] = "select" /\ bridgePc'[b] = "forward")
                  => bridgeHeld'[b] = Head(bridgeRx[b].queue)
            /\ (bridgePc[b] = "forward" /\ bridgePc'[b] = "select")
                  => /\ stream'[b] = Append(stream[b], bridgeHeld[b])
                     /\ forwarded'[b] = Append(forwarded[b], bridgeHeld[b])]_vars

\* C27 witness: a bridge has put on its agent's stream a command whose
\* recipient list lacks that agent
C27_Witness ==
    \E b \in AgentIds :
        /\ stream[b] # <<>>
        /\ b \notin stream[b][1].server_ids
        /\ stream[b][1] = forwarded[b][1]

\* no value occurs twice in seq
NoDuplicates(seq) ==
    \A i, j \in 1..Len(seq) : i # j => seq[i] # seq[j]

FlushedSnapshots ==
    UNION {{c.data.body[i] : i \in 1..Len(c.data.body)} : c \in FlushCommands}

\* the samples in the window
WindowSnapshots == {states[i] : i \in 1..Len(states)}

\* C30: whenever a call is about to complete its ingest (sample pushed,
\* identity and signal to follow under the lock), the flush task later
\* examines the window at a moment when that sample is in the window or has
\* been published by a flush.
C30_NoSignalLost ==
    \A a \in FairCallers : \A n \in 1..MaxReports :
        (ingestPc[a] = "insert" /\ ingestReq[a].state = Snapshot(a, n))
            ~> (/\ flushPc = "check"
                /\ Snapshot(a, n) \in WindowSnapshots \cup FlushedSnapshots)

\* C30 witness: a signal is pending while the flush task is publishing a
\* window and another call waits for the lock
C30_Witness ==
    /\ notify
    /\ flushPc = "send"
    /\ states # <<>>
    /\ \E a \in FairCallers : ingestPc[a] = "lock"

\* this step is the operator sending a "start"
StartSent ==
    /\ Len(wsSent') = Len(wsSent) + 1
    /\ wsSent'[Len(wsSent')] = "start"

\* agent a reads its command stream and the bridge of that stream runs
StreamOpen(a) ==
    /\ agentPc[a] = "recv"
    /\ bridgePc[a] \in {"select", "forward", "ack"}

\* agent a reports, a sample of it has been ingested and flushed, and the
\* payload of that flush has been sent to the operator
ReportRelayed(a) ==
    /\ report_state[a]
    /\ a \in ingested
    /\ \E c \in FlushCommands : a \in Sources(c.data.body)
    /\ \E k \in 1..Len(wsOut) : a \in Sources(wsOut[k].body)

\* C24: a "start" sent while a recipient agent's stream is open is served:
\* at the moment it is sent either the agent already reports and a payload
\* with its sample has been relayed to the operator, or the gateway is at
\* its read of the operator's frames, or some task of the collector or of
\* the agent can still take a step. (What the claim promises eventually
\* cannot come once nothing can move and the frame is never read.)
C24_StartIsServed ==
    [][\A a \in SystemAgents :
          (StartSent /\ StreamOpen(a) /\ a \in GatewayRecipients)
              => (ReportRelayed(a) \/ wsPc = "recv" \/ ENABLED SystemStep)]_vars

\* the flush commands in the order of their publication
FlushSequence == SelectSeq(published, LAMBDA p : p.by = "flush")

\* C31: a flush that publishes while the bus has no subscriber puts its
\* command in no receiver's queue and goes on to clear the window; the
\* clearing empties the samples and the identities; and no sample is
\* published by two flushes.
C31_FailedPublishStillClears ==
    /\ [](\A i, j \in 1..Len(FlushSequence) :
            i # j => Sources(FlushSequence[i].cmd.data.body) = {}
                     \/ \A k \in 1..Len(FlushSequence[i].cmd.data.body) :
                          \A l \in 1..Len(FlushSequence[j].cmd.data.body) :
                             FlushSequence[i].cmd.data.body[k]
                                # FlushSequence[j].cmd.data.body[l])
    /\ [][(flushPc = "send" /\ flushPc' # "send" /\ SendFails)
             => /\ flushPc' = "clear"
                /\ lock' = HeldByFlush
                /\ wsRx' = wsRx
                /\ bridgeRx' = bridgeRx
                /\ states' = states]_vars
    /\ [][(flushPc = "clear" /\ flushPc' # "clear")
             => /\ states' = <<>>
                /\ server_ids' = {}
                /\ wsRx' = wsRx
                /\ bridgeRx' = bridgeRx]_vars

\* C31 witness: two windows with samples have been published to no
\* subscriber, and the window is empty after the second
C31_Witness ==
    /\ SendFails
    /\ Len(FlushSequence) >= 2
    /\ \A i \in 1..Len(FlushSequence) : FlushSequence[i].cmd.data.body # <<>>
    /\ flushPc = "wait"
    /\ states = <<>>
    /\ server_ids = {}

\* the request lacks its state or its agent_info
Rejected(req) == req.state = NoState \/ req.agent_info = NoAgent

\* C32: a call whose request lacks state or agent_info ends where it was
\* read, and reading a request changes neither the samples, nor the
\* identities, nor the signal; a call that goes on holds a complete request,
\* its push appends that one sample, and its last step adds its identity and
\* raises the signal; the signal is raised by no other step.
C32_RejectedLeavesWindow ==
    /\ [](\A a \in AgentIds :
            ingestPc[a] \in {"lock", "push", "insert"} => ~Rejected(ingestReq[a]))
    /\ [][\A a \in AgentIds :
            /\ (ingestPc[a] = "idle" /\ ingestReq'[a] # ingestReq[a])
                  => /\ states' = states
                     /\ server_ids' = server_ids
                     /\ notify' = notify
                     /\ (Rejected(ingestReq'[a]) => ingestPc'[a] = "idle")
            /\ (ingestPc[a] = "push" /\ ingestPc'[a] = "insert")
                  => /\ states' = Append(states, ingestReq[a].state)
                     /\ server_ids' = server_ids
                     /\ notify' = notify
            /\ (ingestPc[a] = "insert" /\ ingestPc'[a] = "idle")
                  => /\ states' = states
                     /\ server_ids' = server_ids \cup {ingestReq[a].agent_info}
                     /\ notify']_vars
    /\ [][(~notify /\ notify')
             => \E a \in AgentIds : ingestPc[a] = "insert" /\ ingestPc'[a] = "idle"]_vars
    /\ [][(Len(states') > Len(states))
             => \E a \in AgentIds : ingestPc[a] = "push" /\ ingestPc'[a] = "insert"]_vars

\* C32 witness: one call was rejected for its missing agent_info, another
\* for its missing state, and a third was accepted and has raised the signal
C32_Witness ==
    \E a, b, c \in AgentIds :
        /\ ingestPc[a] = "idle"
        /\ ingestReq[a].state # NoState /\ ingestReq[a].agent_info = NoAgent
        /\ ingestPc[b] = "idle"
        /\ ingestReq[b].state = NoState /\ ingestReq[b].agent_info # NoAgent
        /\ ingestPc[c] = "idle"
        /\ ~Rejected(ingestReq[c])
        /\ states = <<ingestReq[c].state>>
        /\ server_ids = {c}
        /\ notify

====
